---- MODULE Spec2Model ----
(***************************************************************************)
(* Iftar-Shondhane: the multi-backend write / read / delete layer of the   *)
(* client (App component) and the server process behind it (local SQLite   *)
(* cache, Google OAuth session, Drive export).                             *)
(*                                                                         *)
(* Text values that the code inspects character by character (upazila,     *)
(* village and the two text filters) are sequences of one-character        *)
(* strings; a missing (null / undefined) text is Null.  A creation         *)
(* timestamp is <<>> when missing and <<t>> for the ISO string of          *)
(* millisecond t.  An identifier is [t |-> "number" | "string", v |-> n].  *)
(***************************************************************************)
EXTENDS Integers, Sequences, FiniteSets, Bags, TLC

VARIABLES
    \* ---- client (App component) state
    events,             \* useState<Event[]>: the displayed list
    loading,            \* useState(true)
    showAddForm,        \* useState(false)
    filters,            \* useState({district, upazila, village, type})
    formData,           \* useState({...})
    isGoogleConnected,  \* useState(false)
    isSavingToDrive,    \* useState<string | null>(null)
    isSubmitting,       \* useState(false)
    alerts,             \* the last alert() shown, "none" before any
    fetches,            \* fetchEvents calls in flight, in start order
    listSource,         \* which path produced the last completed listing
    listFilters,        \* the filters that listing was made for
    submit,             \* the handleSubmit call in progress
    del,                \* the deleteEvent call in progress
    save,               \* the saveToDrive call in progress
    statusPending,      \* checkGoogleStatus of the mount effect not yet answered
    now,                \* the client clock (Date), in milliseconds
    \* ---- remote stores
    supabaseRows,       \* primary store: table 'events'
    supabaseSeq,        \* primary store: last identity value handed out
    firebaseDocs,       \* secondary store: collection 'events'
    \* ---- server process
    sqliteRows,         \* local cache: table events
    sqliteSeq,          \* local cache: AUTOINCREMENT sequence
    tokens,             \* req.session.tokens, per session
    authResp,           \* status of the last answer of GET /auth/google/callback, per session
    oauthCreds,         \* credentials held by the one shared oauth2Client
    driveReqs,          \* POST /api/drive/save handlers in progress
    \* ---- Google Drive
    driveFolders,       \* per account: number of 'Iftar Shondhane' folders
    driveFiles,         \* per account: the bag of the contents of the files created
    revoked             \* tokens the drive API rejects (expired / revoked)

vars == <<events, loading, showAddForm, filters, formData, isGoogleConnected,
          isSavingToDrive, isSubmitting, alerts, fetches, listSource,
          listFilters, submit, del, save, statusPending, now, supabaseRows, supabaseSeq,
          firebaseDocs, sqliteRows, sqliteSeq, tokens, authResp, oauthCreds,
          driveReqs, driveFolders, driveFiles, revoked>>

listing  == <<fetches, listSource, listFilters>>
stores   == <<supabaseRows, supabaseSeq, firebaseDocs, sqliteRows, sqliteSeq>>
driveSide == <<authResp, tokens, oauthCreds, driveReqs, driveFolders, driveFiles, revoked>>

----------------------------------------------------------------------------
\* Values

Null == <<"null">>
None == "none"

NumId(n) == [t |-> "number", v |-> n]
StrId(n) == [t |-> "string", v |-> n]
\* the null of an id-valued state (isSavingToDrive before and after a save)
NullId == [t |-> "null", v |-> 0]

\* A coordinate (lat; lng goes through the same code) as a JavaScript value: a
\* number, NaN, undefined (also: key or field not present) or null
JsNumber(v) == [k |-> "number", v |-> v]
NaN == [k |-> "NaN", v |-> 0]
Undefined == [k |-> "undefined", v |-> 0]
JsNull == [k |-> "null", v |-> 0]

DigitOf(c) ==
    CASE c = "2" -> 2
      [] c = "3" -> 3
      [] OTHER   -> 0

IsDigit(c) == c \in {"2", "3"}

RECURSIVE Decimal(_)
Decimal(s) ==
    IF s = <<>> THEN 0 ELSE 10 * Decimal(SubSeq(s, 1, Len(s) - 1)) + DigitOf(s[Len(s)])

\* parseFloat: the number written by the longest numeric prefix, NaN without one
parseFloat(s) ==
    LET n == Cardinality({k \in 1..Len(s) : \A i \in 1..k : IsDigit(s[i])})
    IN  IF n = 0 THEN NaN ELSE JsNumber(Decimal(SubSeq(s, 1, n)))

\* JSON.stringify then JSON.parse of a property: NaN is written as null, an
\* undefined property is left out
JSONValue(x) == IF x = NaN THEN JsNull ELSE x

\* x ?? null, and a column that is given no value
orNullish(x) == IF x \in {Undefined, JsNull} THEN JsNull ELSE x

\* body: JSON.stringify(...) as the receiving side reads it
JsonBody(p) == [p EXCEPT !.lat = JSONValue(@)]

\* String.prototype.toLowerCase, one character
LowerChar(c) ==
    CASE c = "A" -> "a"
      [] c = "B" -> "b"
      [] OTHER   -> c

toLowerCase(s) == [i \in 1..Len(s) |-> LowerChar(s[i])]

\* String.prototype.includes
includes(s, sub) ==
    \E i \in 0..(Len(s) - Len(sub)) : SubSeq(s, i + 1, i + Len(sub)) = sub

\* SQL LIKE on lower-cased operands: % matches any run of characters, _ matches
\* exactly one character, any other character matches itself.
RECURSIVE LikeMatch(_, _)
LikeMatch(s, p) ==
    IF p = <<>> THEN s = <<>>
    ELSE IF Head(p) = "%"
         THEN LikeMatch(s, Tail(p)) \/ (s /= <<>> /\ LikeMatch(Tail(s), p))
    ELSE IF Head(p) = "_"
         THEN s /= <<>> /\ LikeMatch(Tail(s), Tail(p))
    ELSE s /= <<>> /\ Head(s) = Head(p) /\ LikeMatch(Tail(s), Tail(p))

\* queryBuilder.ilike(column, `%${filter}%`): a NULL column never matches
ilike(col, f) ==
    col /= Null /\ LikeMatch(toLowerCase(col), toLowerCase(<<"%">> \o f \o <<"%">>))

\* a.created_at ? new Date(a.created_at).getTime() : 0
getTime(created_at) == IF created_at = <<>> THEN 0 ELSE created_at[1]

\* new Date().toISOString()
toISOString(t) == <<t>>

\* The fields of an event other than its store-assigned identifier
Content(e) ==
    [district |-> e.district, type |-> e.type, upazila |-> e.upazila,
     village |-> e.village, lat |-> e.lat, created_at |-> e.created_at]

WithId(i, c) ==
    [id |-> i, district |-> c.district, type |-> c.type, upazila |-> c.upazila,
     village |-> c.village, lat |-> c.lat, created_at |-> c.created_at]

Range(s) == {s[i] : i \in 1..Len(s)}

RemoveAt(s, i) == SubSeq(s, 1, i - 1) \o SubSeq(s, i + 1, Len(s))

\* All orderings of a finite set, as sequences without repetition
Orderings(S) ==
    {s \in [1..Cardinality(S) -> S] : \A i, j \in 1..Cardinality(S) : i /= j => s[i] /= s[j]}

----------------------------------------------------------------------------
\* fetchEvents: the primary query

\* .eq('district', ...), .eq('type', ...), .ilike('upazila', ...), .ilike('village', ...)
\* each added only for a non-empty filter
PrimaryMatches(row, f) ==
    /\ (f.district /= "" => row.district = f.district)
    /\ (f.type /= "" => row.type = f.type)
    /\ (f.upazila /= <<>> => ilike(row.upazila, f.upazila))
    /\ (f.village /= <<>> => ilike(row.village, f.village))

\* .order('created_at', { ascending: false }) with no nullsFirst option: rows that
\* have a timestamp come newest first; where the rows without one go is the
\* store's choice (nullsFirst), as is the order among equal timestamps.
OrderedDesc(r, nullsFirst) ==
    \A i, j \in 1..Len(r) : i < j =>
        IF r[i].created_at = <<>> /\ r[j].created_at = <<>> THEN TRUE
        ELSE IF r[i].created_at = <<>> THEN nullsFirst
        ELSE IF r[j].created_at = <<>> THEN ~nullsFirst
        ELSE r[i].created_at[1] >= r[j].created_at[1]

PrimaryResults(f, rows) ==
    LET hit == {row \in rows : PrimaryMatches(row, f)}
    IN  {r \in Orderings(hit) : \E nullsFirst \in BOOLEAN : OrderedDesc(r, nullsFirst)}

----------------------------------------------------------------------------
\* fetchEvents: the fallback (Firestore snapshot, filtered and sorted on the client)

FallbackMatches(data, f) ==
    /\ ~(f.district /= "" /\ data.district /= f.district)
    /\ ~(f.type /= "" /\ data.type /= f.type)
    /\ ~(f.upazila /= <<>> /\
         ~(data.upazila /= Null /\ includes(toLowerCase(data.upazila), toLowerCase(f.upazila))))
    /\ ~(f.village /= <<>> /\
         ~(data.village /= Null /\ includes(toLowerCase(data.village), toLowerCase(f.village))))

\* querySnapshot.forEach visits the documents in document-id order
RECURSIVE SnapshotOrder(_)
SnapshotOrder(docs) ==
    IF docs = {} THEN <<>>
    ELSE LET d == CHOOSE x \in docs : \A y \in docs : x.id.v <= y.id.v
         IN  <<d>> \o SnapshotOrder(docs \ {d})

\* Array.prototype.sort with comparator dateB - dateA (stable): e goes after every
\* element already placed whose time is >= its own
InsertDesc(sorted, e) ==
    LET k == Cardinality({i \in 1..Len(sorted) : getTime(sorted[i].created_at) >= getTime(e.created_at)})
    IN  SubSeq(sorted, 1, k) \o <<e>> \o SubSeq(sorted, k + 1, Len(sorted))

RECURSIVE SortByCreatedDesc(_)
SortByCreatedDesc(s) ==
    IF s = <<>> THEN <<>>
    ELSE InsertDesc(SortByCreatedDesc(SubSeq(s, 1, Len(s) - 1)), s[Len(s)])

FallbackResult(f, docs) ==
    SortByCreatedDesc(SelectSeq(SnapshotOrder(docs), LAMBDA d : FallbackMatches(d, f)))

----------------------------------------------------------------------------
\* Bounds

MaxFetches == 1     \* fetchEvents calls in flight at once
MaxSubmits == 1     \* submissions made in one run
MaxExports == 2     \* drive export requests made in one run

----------------------------------------------------------------------------
\* Client state after the component has mounted

EmptyFilters == [district |-> "", upazila |-> <<>>, village |-> <<>>, type |-> ""]

EmptyForm ==
    [type |-> "public_iftar", district |-> "", upazila |-> <<>>, village |-> <<>>,
     lat |-> Undefined]

NewFetch(f) == [stage |-> "primary", filters |-> f]

Browser == "browser"
Sessions == {"browser", "other"}
Origins == {"submit", "save", "other"}
Accounts == {"acctA", "acctB"}

\* fetchEvents(): setLoading(true) and the primary query is issued
StartFetch(f) ==
    /\ Len(fetches) < MaxFetches
    /\ fetches' = Append(fetches, NewFetch(f))
    /\ loading' = TRUE

\* filter inputs: setFilters({...filters, ...}); the [filters] effect runs fetchEvents
SetFilters(f) ==
    /\ filters' = f
    /\ StartFetch(f)
    /\ UNCHANGED <<events, showAddForm, formData, isGoogleConnected, isSavingToDrive,
                   isSubmitting, alerts, listSource, listFilters, submit, del, save,
                   statusPending, now>>
    /\ UNCHANGED stores /\ UNCHANGED driveSide

\* the search button: onClick={fetchEvents}
SearchClick ==
    /\ StartFetch(filters)
    /\ UNCHANGED <<events, showAddForm, filters, formData, isGoogleConnected,
                   isSavingToDrive, isSubmitting, alerts, listSource, listFilters,
                   submit, del, save, statusPending, now>>
    /\ UNCHANGED stores /\ UNCHANGED driveSide

FetchFrame ==
    /\ UNCHANGED <<showAddForm, filters, formData, isGoogleConnected, isSavingToDrive,
                   isSubmitting, alerts, submit, del, save, statusPending, now>>
    /\ UNCHANGED stores /\ UNCHANGED driveSide

\* the primary query answers without error: setEvents(data); finally setLoading(false)
FetchPrimaryOk(i) ==
    /\ i \in 1..Len(fetches)
    /\ fetches[i].stage = "primary"
    /\ \E r \in PrimaryResults(fetches[i].filters, supabaseRows) : events' = r
    /\ listSource' = "primary"
    /\ listFilters' = fetches[i].filters
    /\ loading' = FALSE
    /\ fetches' = RemoveAt(fetches, i)
    /\ FetchFrame

\* the primary query fails: catch, getDocs(query(collection(db, 'events'))) is issued
FetchPrimaryError(i) ==
    /\ i \in 1..Len(fetches)
    /\ fetches[i].stage = "primary"
    /\ fetches' = [fetches EXCEPT ![i].stage = "fallback"]
    /\ UNCHANGED <<events, loading, listSource, listFilters>>
    /\ FetchFrame

\* the snapshot arrives: filter, sort, setEvents(eventsData); finally setLoading(false)
FetchFallbackOk(i) ==
    /\ i \in 1..Len(fetches)
    /\ fetches[i].stage = "fallback"
    /\ events' = FallbackResult(fetches[i].filters, firebaseDocs)
    /\ listSource' = "fallback"
    /\ listFilters' = fetches[i].filters
    /\ loading' = FALSE
    /\ fetches' = RemoveAt(fetches, i)
    /\ FetchFrame

\* faulty variant: when the fallback fails as well the list is emptied
FetchFallbackErrorClearsList(i) ==
    /\ i \in 1..Len(fetches)
    /\ fetches[i].stage = "fallback"
    /\ listSource' = "failed"
    /\ listFilters' = fetches[i].filters
    /\ loading' = FALSE
    /\ fetches' = RemoveAt(fetches, i)
    /\ events' = <<>>
    /\ FetchFrame

\* getDocs fails too: logged only; finally setLoading(false)
FetchFallbackError(i) ==
    /\ i \in 1..Len(fetches)
    /\ fetches[i].stage = "fallback"
    /\ listSource' = "failed"
    /\ listFilters' = fetches[i].filters
    /\ loading' = FALSE
    /\ fetches' = RemoveAt(fetches, i)
    /\ UNCHANGED events
    /\ FetchFrame

----------------------------------------------------------------------------
\* handleSubmit

\* newEvent = {...formData, created_at: new Date().toISOString()}
WithStamp(fd, t) ==
    [district |-> fd.district, type |-> fd.type, upazila |-> fd.upazila,
     village |-> fd.village, lat |-> fd.lat, created_at |-> t]

NoSubmit ==
    [pc |-> "idle", newEvent |-> WithStamp(EmptyForm, <<>>), form |-> EmptyForm,
     connected |-> FALSE, filters |-> EmptyFilters, log |-> <<>>, result |-> "none", n |-> 0]

NoDelete ==
    [pc |-> "idle", id |-> NumId(0), event |-> WithStamp(EmptyForm, <<>>),
     filters |-> EmptyFilters, password |-> None, log |-> <<>>]

NoSave == [pc |-> "idle"]

NoDriveReq ==
    [pc |-> "idle", session |-> None, payload |-> [name |-> None], creds |-> None, folder |-> None,
     status |-> 0, body |-> None, cause |-> None, n |-> 0]

Step(b, r) == [b |-> b, r |-> r]

\* the inputs marked required in the add form
FormValid(fd) == fd.district /= "" /\ fd.upazila /= <<>> /\ fd.village /= <<>>

ExportsSent == driveReqs["submit"].n + driveReqs["save"].n + driveReqs["other"].n

\* the browser sends POST /api/drive/save {eventData} on its session
SendDriveSave(r, s, payload) ==
    /\ ExportsSent < MaxExports
    /\ driveReqs' = [driveReqs EXCEPT ![r] =
        [pc |-> "received", session |-> s, payload |-> payload, creds |-> None,
         folder |-> None, status |-> 0, body |-> None, cause |-> None,
         n |-> driveReqs[r].n + 1]]

\* the add form: open, close, edit
OpenForm ==
    /\ ~showAddForm
    /\ showAddForm' = TRUE
    /\ UNCHANGED <<events, loading, filters, formData, isGoogleConnected, isSavingToDrive,
                   isSubmitting, alerts, submit, del, save, statusPending, now>>
    /\ UNCHANGED listing /\ UNCHANGED stores /\ UNCHANGED driveSide

CloseForm ==
    /\ showAddForm
    /\ showAddForm' = FALSE
    /\ UNCHANGED <<events, loading, filters, formData, isGoogleConnected, isSavingToDrive,
                   isSubmitting, alerts, submit, del, save, statusPending, now>>
    /\ UNCHANGED listing /\ UNCHANGED stores /\ UNCHANGED driveSide

EditForm(fd) ==
    /\ showAddForm
    /\ formData /= fd
    /\ formData' = fd
    /\ UNCHANGED <<events, loading, showAddForm, filters, isGoogleConnected, isSavingToDrive,
                   isSubmitting, alerts, submit, del, save, statusPending, now>>
    /\ UNCHANGED listing /\ UNCHANGED stores /\ UNCHANGED driveSide

\* the latitude input: setFormData({...formData, lat: parseFloat(e.target.value)})
SetLat(text) ==
    /\ showAddForm
    /\ formData.lat /= parseFloat(text)
    /\ formData' = [formData EXCEPT !.lat = parseFloat(text)]
    /\ UNCHANGED <<events, loading, showAddForm, filters, isGoogleConnected, isSavingToDrive,
                   isSubmitting, alerts, submit, del, save, statusPending, now>>
    /\ UNCHANGED listing /\ UNCHANGED stores /\ UNCHANGED driveSide

\* onSubmit: if (isSubmitting) return; setIsSubmitting(true); newEvent is built and
\* the primary insert is issued.  The clock may or may not have moved on since the
\* last submission.
SubmitStart ==
    /\ showAddForm /\ FormValid(formData)
    /\ ~isSubmitting
    /\ submit.n < MaxSubmits
    /\ \E t \in {now, now + 1} :
         /\ now' = t
         /\ submit' = [pc |-> "primary", newEvent |-> WithStamp(formData, toISOString(t)),
                       form |-> formData, connected |-> isGoogleConnected,
                       filters |-> filters, log |-> <<>>, result |-> "none",
                       n |-> submit.n + 1]
    /\ isSubmitting' = TRUE
    /\ UNCHANGED <<events, loading, showAddForm, filters, formData, isGoogleConnected,
                   isSavingToDrive, alerts, del, save, statusPending>>
    /\ UNCHANGED listing /\ UNCHANGED stores /\ UNCHANGED driveSide

\* faulty variant: the handler does not look at isSubmitting
SubmitEventUnguarded ==
    /\ showAddForm /\ FormValid(formData)
    /\ submit.n < MaxSubmits + 1
    /\ \E t \in {now, now + 1} :
         /\ now' = t
         /\ submit' = [pc |-> "primary", newEvent |-> WithStamp(formData, toISOString(t)),
                       form |-> formData, connected |-> isGoogleConnected,
                       filters |-> filters, log |-> <<>>, result |-> "none",
                       n |-> submit.n + 1]
    /\ isSubmitting' = TRUE
    /\ UNCHANGED <<events, loading, showAddForm, filters, formData, isGoogleConnected,
                   isSavingToDrive, alerts, del, save, statusPending>>
    /\ UNCHANGED listing /\ UNCHANGED stores /\ UNCHANGED driveSide

\* a submit event of the add form, also one that arrives while a submission is
\* in progress: if (isSubmitting) return; else as above.  Here submit.n counts
\* the submit events, one more than the submissions allowed.
SubmitEvent ==
    /\ showAddForm /\ FormValid(formData)
    /\ IF isSubmitting
       THEN /\ submit.n < MaxSubmits + 1
            /\ submit' = [submit EXCEPT !.n = @ + 1]
            /\ UNCHANGED <<isSubmitting, now>>
       ELSE /\ submit.n < MaxSubmits
            /\ \E t \in {now, now + 1} :
                 /\ now' = t
                 /\ submit' = [pc |-> "primary",
                               newEvent |-> WithStamp(formData, toISOString(t)),
                               form |-> formData, connected |-> isGoogleConnected,
                               filters |-> filters, log |-> <<>>, result |-> "none",
                               n |-> submit.n + 1]
            /\ isSubmitting' = TRUE
    /\ UNCHANGED <<events, loading, showAddForm, filters, formData, isGoogleConnected,
                   isSavingToDrive, alerts, del, save, statusPending>>
    /\ UNCHANGED listing /\ UNCHANGED stores /\ UNCHANGED driveSide

\* faulty variant: the insert is acknowledged although no row was stored
SubmitPrimaryOkNotStored ==
    /\ submit.pc = "primary"
    /\ submit' = [submit EXCEPT !.pc = "secondary", !.log = Append(@, Step("primary", "ok"))]
    /\ UNCHANGED <<events, loading, showAddForm, filters, formData, isGoogleConnected,
                   isSavingToDrive, isSubmitting, alerts, del, save, statusPending, now>>
    /\ UNCHANGED listing /\ UNCHANGED stores /\ UNCHANGED driveSide

\* the row the primary store keeps for .insert([newEvent]): the record travels as
\* JSON and a column that gets no value is NULL
InsertedRow(newEvent) == [newEvent EXCEPT !.lat = orNullish(JSONValue(@))]

\* 1. the primary insert answers without error; 2. addDoc is issued
SubmitPrimaryOk ==
    /\ submit.pc = "primary"
    /\ supabaseRows' = supabaseRows \cup {WithId(NumId(supabaseSeq + 1), InsertedRow(submit.newEvent))}
    /\ supabaseSeq' = supabaseSeq + 1
    /\ submit' = [submit EXCEPT !.pc = "secondary", !.log = Append(@, Step("primary", "ok"))]
    /\ UNCHANGED <<events, loading, showAddForm, filters, formData, isGoogleConnected,
                   isSavingToDrive, isSubmitting, alerts, del, save, statusPending, now>>
    /\ UNCHANGED <<firebaseDocs, sqliteRows, sqliteSeq>>
    /\ UNCHANGED listing /\ UNCHANGED driveSide

\* faulty variant: the primary error is not thrown: the submission goes on to the backup
SubmitPrimaryErrorIgnored ==
    /\ submit.pc = "primary"
    /\ submit' = [submit EXCEPT !.pc = "secondary", !.log = Append(@, Step("primary", "failed"))]
    /\ UNCHANGED <<events, loading, showAddForm, filters, formData, isGoogleConnected,
                   isSavingToDrive, isSubmitting, alerts, del, save, statusPending, now>>
    /\ UNCHANGED listing /\ UNCHANGED stores /\ UNCHANGED driveSide

\* the primary insert fails (error returned or thrown): catch alerts, finally
\* setIsSubmitting(false)
SubmitPrimaryError ==
    /\ submit.pc = "primary"
    /\ submit' = [submit EXCEPT !.pc = "idle", !.log = Append(@, Step("primary", "failed")),
                                !.result = "failure"]
    /\ alerts' = "submit_failed"
    /\ isSubmitting' = FALSE
    /\ UNCHANGED <<events, loading, showAddForm, filters, formData, isGoogleConnected,
                   isSavingToDrive, del, save, statusPending, now>>
    /\ UNCHANGED listing /\ UNCHANGED stores /\ UNCHANGED driveSide

SubmitToCache(r) ==
    /\ submit' = [submit EXCEPT !.pc = "cache", !.log = Append(@, Step("secondary", r))]
    /\ UNCHANGED <<events, loading, showAddForm, filters, formData, isGoogleConnected,
                   isSavingToDrive, isSubmitting, alerts, del, save, statusPending, now>>
    /\ UNCHANGED <<supabaseRows, supabaseSeq, sqliteRows, sqliteSeq>>
    /\ UNCHANGED listing /\ UNCHANGED driveSide

\* 2. addDoc resolves: the document gets a fresh auto-generated id and holds the
\* values as given (a NaN is stored as the number NaN; an undefined field, where
\* the SDK is set to accept it, is left out); 3. POST /api/events is issued
SubmitSecondaryOk ==
    /\ submit.pc = "secondary"
    /\ \E v \in 1..MaxSubmits :
         /\ \A d \in firebaseDocs : d.id.v /= v
         /\ firebaseDocs' = firebaseDocs \cup {WithId(StrId(v), submit.newEvent)}
    /\ SubmitToCache("ok")

\* faulty variant: addDoc is not wrapped in its own try: its rejection reaches the outer catch
SubmitSecondaryErrorRethrown ==
    /\ submit.pc = "secondary"
    /\ submit' = [submit EXCEPT !.pc = "idle", !.log = Append(@, Step("secondary", "failed")),
                                !.result = "failure"]
    /\ alerts' = "submit_failed"
    /\ isSubmitting' = FALSE
    /\ UNCHANGED <<events, loading, showAddForm, filters, formData, isGoogleConnected,
                   isSavingToDrive, del, save, statusPending, now>>
    /\ UNCHANGED listing /\ UNCHANGED stores /\ UNCHANGED driveSide

\* faulty variant: a rejected addDoc is tried again
SubmitSecondaryErrorRetried ==
    /\ submit.pc = "secondary"
    /\ Len(submit.log) < 3
    /\ submit' = [submit EXCEPT !.log = Append(@, Step("secondary", "failed"))]
    /\ UNCHANGED <<events, loading, showAddForm, filters, formData, isGoogleConnected,
                   isSavingToDrive, isSubmitting, alerts, del, save, statusPending, now>>
    /\ UNCHANGED listing /\ UNCHANGED stores /\ UNCHANGED driveSide

\* addDoc rejects: caught and logged; 3. POST /api/events is issued
SubmitSecondaryError ==
    /\ submit.pc = "secondary"
    /\ UNCHANGED firebaseDocs
    /\ SubmitToCache("failed")

\* alert, setShowAddForm(false), fetchEvents(), setFormData(reset); finally
\* setIsSubmitting(false).  fetchEvents is the one of the render that created this
\* handler: it reads the filters of that render.
SubmitFinish(log) ==
    /\ alerts' = "submit_ok"
    /\ showAddForm' = FALSE
    /\ StartFetch(submit.filters)
    /\ formData' = EmptyForm
    /\ isSubmitting' = FALSE
    /\ submit' = [submit EXCEPT !.pc = "idle", !.log = log, !.result = "success"]
    /\ UNCHANGED <<events, filters, isGoogleConnected, isSavingToDrive, listSource,
                   listFilters, del, save, statusPending, now>>

\* after step 3: if (isGoogleConnected) the drive export is issued with
\* eventData: formData, else the submission finishes
SubmitAfterCache(r) ==
    LET log == Append(submit.log, Step("cache", r))
    IN  IF submit.connected
        THEN \/ /\ SendDriveSave("submit", Browser, JsonBody(submit.form))
                /\ submit' = [submit EXCEPT !.pc = "drive", !.log = log]
                /\ UNCHANGED <<events, loading, showAddForm, filters, formData,
                               isGoogleConnected, isSavingToDrive, isSubmitting, alerts,
                               del, save, statusPending, now>>
                /\ UNCHANGED listing
                /\ UNCHANGED <<authResp, tokens, oauthCreds, driveFolders, driveFiles, revoked>>
             \/ /\ SubmitFinish(Append(log, Step("drive", "rejected")))
                /\ UNCHANGED driveSide
        ELSE /\ SubmitFinish(log)
             /\ UNCHANGED driveSide

\* NULL for a falsy value: event.x || null
orNull(x) == IF x = <<>> THEN Null ELSE x
orNullStr(x) == IF x = "" THEN "<null>" ELSE x

\* faulty variant: the id column is a plain rowid (no AUTOINCREMENT): the new row
\* gets one more than the largest id now in the table
SqliteInsertPlainRowid(event) ==
    LET top == IF sqliteRows = {} THEN 0
               ELSE (CHOOSE r \in sqliteRows : \A x \in sqliteRows : x.id.v <= r.id.v).id.v
    IN  /\ sqliteRows' = sqliteRows \cup
             {[id |-> NumId(top + 1), district |-> orNullStr(event.district),
               type |-> orNullStr(event.type), upazila |-> orNull(event.upazila),
               village |-> orNull(event.village), lat |-> orNullish(event.lat),
               created_at |-> event.created_at]}
        /\ sqliteSeq' = top + 1

\* POST /api/events: INSERT INTO events ...; the row gets the next AUTOINCREMENT id
\* (created_at is the one sent: handleSubmit always sends one)
SqliteInsert(event) ==
    /\ sqliteRows' = sqliteRows \cup
         {[id |-> NumId(sqliteSeq + 1), district |-> orNullStr(event.district),
           type |-> orNullStr(event.type), upazila |-> orNull(event.upazila),
           village |-> orNull(event.village), lat |-> orNullish(event.lat),
           created_at |-> event.created_at]}
    /\ sqliteSeq' = sqliteSeq + 1

\* 3. the server inserts and answers 200
SubmitCacheOk ==
    /\ submit.pc = "cache"
    /\ SqliteInsert(JsonBody(submit.newEvent))
    /\ UNCHANGED <<supabaseRows, supabaseSeq, firebaseDocs>>
    /\ SubmitAfterCache("ok")

\* the server answers 500 (no database, or the insert throws): fetch resolves and
\* the status is not looked at
SubmitCacheHttpError ==
    /\ submit.pc = "cache"
    /\ UNCHANGED stores
    /\ SubmitAfterCache("http_error")

\* fetch rejects (server unreachable): caught and logged
SubmitCacheRejected ==
    /\ submit.pc = "cache"
    /\ UNCHANGED stores
    /\ SubmitAfterCache("rejected")

\* the drive export answers (any status): the answer is not looked at
SubmitDriveResp ==
    /\ submit.pc = "drive"
    /\ driveReqs["submit"].pc = "done"
    /\ driveReqs' = [driveReqs EXCEPT !["submit"].pc = "idle"]
    /\ SubmitFinish(Append(submit.log,
                           Step("drive", IF driveReqs["submit"].status = 200 THEN "ok" ELSE "http_error")))
    /\ UNCHANGED <<authResp, tokens, oauthCreds, driveFolders, driveFiles, revoked>>
    /\ UNCHANGED stores

----------------------------------------------------------------------------
\* deleteEvent

SharedSecret == "0179215718"
Passwords == {SharedSecret, "12345", None}

\* faulty variant: the password is asked for but not compared
DeleteClickUngated(e, password, confirmed) ==
    /\ del.pc = "idle"
    /\ ~loading
    /\ e \in Range(events)
    /\ del' = [pc |-> IF confirmed THEN "primary" ELSE "idle", id |-> e.id,
               event |-> Content(e), filters |-> filters, password |-> password,
               log |-> <<>>]
    /\ UNCHANGED <<events, loading, showAddForm, filters, formData, isGoogleConnected,
                   isSavingToDrive, isSubmitting, alerts, submit, save, statusPending, now>>
    /\ UNCHANGED listing /\ UNCHANGED stores /\ UNCHANGED driveSide

\* the delete button of a listed event (the list is rendered when not loading):
\* prompt for the password, compare, confirm, then issue the primary delete
DeleteClick(e, password, confirmed) ==
    /\ del.pc = "idle"
    /\ ~loading
    /\ e \in Range(events)
    /\ IF password /= SharedSecret
       THEN /\ alerts' = "wrong_password"
            /\ del' = [NoDelete EXCEPT !.id = e.id, !.event = Content(e),
                                       !.password = password]
       ELSE /\ UNCHANGED alerts
            /\ del' = [pc |-> IF confirmed THEN "primary" ELSE "idle", id |-> e.id,
                       event |-> Content(e), filters |-> filters,
                       password |-> password, log |-> <<>>]
    /\ UNCHANGED <<events, loading, showAddForm, filters, formData, isGoogleConnected,
                   isSavingToDrive, isSubmitting, submit, save, statusPending, now>>
    /\ UNCHANGED listing /\ UNCHANGED stores /\ UNCHANGED driveSide

DeleteFrame ==
    /\ UNCHANGED <<events, showAddForm, filters, formData, isGoogleConnected,
                   isSavingToDrive, isSubmitting, submit, save, statusPending, now>>
    /\ UNCHANGED driveSide

\* 1. the primary delete answers without error; 2. for a string id deleteDoc is
\* issued, else 3. POST /api/events/delete is issued
DeletePrimaryOk ==
    /\ del.pc = "primary"
    /\ supabaseRows' = {r \in supabaseRows : r.id /= del.id}
    /\ del' = [del EXCEPT !.pc = IF del.id.t = "string" THEN "secondary" ELSE "cache",
                          !.log = Append(@, Step("primary", "ok"))]
    /\ UNCHANGED <<supabaseSeq, firebaseDocs, sqliteRows, sqliteSeq, alerts, loading>>
    /\ UNCHANGED listing
    /\ DeleteFrame

\* faulty variant: the primary error is not thrown: the local-cache delete is issued
DeletePrimaryErrorIgnored ==
    /\ del.pc = "primary"
    /\ del' = [del EXCEPT !.pc = "cache", !.log = Append(@, Step("primary", "failed"))]
    /\ UNCHANGED stores /\ UNCHANGED <<alerts, loading>>
    /\ UNCHANGED listing
    /\ DeleteFrame

\* the primary delete fails: the outer catch alerts
DeletePrimaryError ==
    /\ del.pc = "primary"
    /\ del' = [del EXCEPT !.pc = "idle", !.log = Append(@, Step("primary", "failed"))]
    /\ alerts' = "delete_failed"
    /\ UNCHANGED stores /\ UNCHANGED loading
    /\ UNCHANGED listing
    /\ DeleteFrame

\* faulty variant: the backup delete clears the whole collection
DeleteSecondaryOkWholeCollection ==
    /\ del.pc = "secondary"
    /\ firebaseDocs' = {}
    /\ del' = [del EXCEPT !.pc = "cache", !.log = Append(@, Step("secondary", "ok"))]
    /\ UNCHANGED <<supabaseRows, supabaseSeq, sqliteRows, sqliteSeq, alerts, loading>>
    /\ UNCHANGED listing
    /\ DeleteFrame

\* 2. deleteDoc resolves; 3. POST /api/events/delete is issued
DeleteSecondaryOk ==
    /\ del.pc = "secondary"
    /\ firebaseDocs' = {d \in firebaseDocs : d.id /= del.id}
    /\ del' = [del EXCEPT !.pc = "cache", !.log = Append(@, Step("secondary", "ok"))]
    /\ UNCHANGED <<supabaseRows, supabaseSeq, sqliteRows, sqliteSeq, alerts, loading>>
    /\ UNCHANGED listing
    /\ DeleteFrame

\* faulty variant: deleteDoc is not wrapped in its own try: its rejection reaches the
\* outer catch
DeleteSecondaryErrorRethrown ==
    /\ del.pc = "secondary"
    /\ del' = [del EXCEPT !.pc = "idle", !.log = Append(@, Step("secondary", "failed"))]
    /\ alerts' = "delete_failed"
    /\ UNCHANGED stores /\ UNCHANGED loading
    /\ UNCHANGED listing
    /\ DeleteFrame

\* deleteDoc rejects: caught and logged; 3. POST /api/events/delete is issued
DeleteSecondaryError ==
    /\ del.pc = "secondary"
    /\ del' = [del EXCEPT !.pc = "cache", !.log = Append(@, Step("secondary", "failed"))]
    /\ UNCHANGED stores /\ UNCHANGED <<alerts, loading>>
    /\ UNCHANGED listing
    /\ DeleteFrame

\* fetch resolved (whatever the status): fetchEvents() of the handler's render
DeleteRefetch(r) ==
    /\ del' = [del EXCEPT !.pc = "idle", !.log = Append(@, Step("cache", r))]
    /\ StartFetch(del.filters)
    /\ UNCHANGED <<alerts, listSource, listFilters>>
    /\ DeleteFrame

\* 3. the server runs DELETE FROM events WHERE id = ? and answers 200
DeleteCacheOk ==
    /\ del.pc = "cache"
    /\ sqliteRows' = {r \in sqliteRows : r.id /= del.id}
    /\ UNCHANGED <<supabaseRows, supabaseSeq, firebaseDocs, sqliteSeq>>
    /\ DeleteRefetch("ok")

\* the server answers 500: fetch resolves and the status is not looked at
DeleteCacheHttpError ==
    /\ del.pc = "cache"
    /\ UNCHANGED stores
    /\ DeleteRefetch("http_error")

\* fetch rejects (server unreachable): the await throws into the outer catch
DeleteCacheRejected ==
    /\ del.pc = "cache"
    /\ del' = [del EXCEPT !.pc = "idle", !.log = Append(@, Step("cache", "rejected"))]
    /\ alerts' = "delete_failed"
    /\ UNCHANGED stores /\ UNCHANGED loading
    /\ UNCHANGED listing
    /\ DeleteFrame

\* POST /api/events/delete {id} sent by any client, not through deleteEvent: the
\* handler looks at nothing but the id, runs the DELETE and answers 200
OtherDeletePost(id) ==
    /\ sqliteRows' = {r \in sqliteRows : r.id /= id}
    /\ UNCHANGED <<supabaseRows, supabaseSeq, firebaseDocs, sqliteSeq>>
    /\ UNCHANGED <<events, loading, showAddForm, filters, formData, isGoogleConnected,
                   isSavingToDrive, isSubmitting, alerts, submit, del, save,
                   statusPending, now>>
    /\ UNCHANGED listing /\ UNCHANGED driveSide

\* GET /api/events: SELECT * FROM events ORDER BY created_at DESC.  SQLite puts
\* NULL below every text, so rows without a timestamp come last; the order among
\* equal timestamps is the engine's choice.
SqliteDesc(r) ==
    \A i, j \in 1..Len(r) : i < j =>
        \/ r[j].created_at = <<>>
        \/ r[i].created_at /= <<>> /\ r[i].created_at[1] >= r[j].created_at[1]

GetEvents(rows) == {r \in Orderings(rows) : SqliteDesc(r)}

----------------------------------------------------------------------------
\* SpecList: listing over stores that hold the same events, for sample events
\* and filters that exercise every filter predicate and the sort.

BaseContent ==
    [district |-> "dhaka", type |-> "public_iftar", upazila |-> <<"A", "b">>,
     village |-> <<"A", "b">>, lat |-> JsNull, created_at |-> <<1>>]

SampleStamps == {<<>>, <<1>>, <<2>>}

\* the base event with at most one field changed, under every timestamp
SampleContents ==
    LET shapes == {BaseContent,
                   [BaseContent EXCEPT !.district = "ctg"],
                   [BaseContent EXCEPT !.type = "religious_gathering"],
                   [BaseContent EXCEPT !.upazila = Null],
                   [BaseContent EXCEPT !.upazila = <<"_">>],
                   [BaseContent EXCEPT !.village = Null],
                   [BaseContent EXCEPT !.village = <<"_">>]}
    IN  {[c EXCEPT !.created_at = t] : c \in shapes, t \in SampleStamps}

SampleFilters ==
    [district : {"", "dhaka"}, type : {"", "public_iftar"},
     upazila : {<<>>, <<"B">>, <<"_">>}, village : {<<>>, <<"B">>, <<"_">>}]

\* up to two events, in the order of their secondary-store document ids; of two,
\* the second is the base event under some timestamp
SampleStores ==
    {<<>>} \cup {<<c>> : c \in SampleContents}
    \cup {<<c, [BaseContent EXCEPT !.created_at = t]>> : c \in SampleContents, t \in SampleStamps}

InitClient ==
    /\ events = <<>>
    /\ loading = TRUE
    /\ showAddForm = FALSE
    /\ formData = EmptyForm
    /\ isGoogleConnected = FALSE
    /\ isSavingToDrive = NullId
    /\ isSubmitting = FALSE
    /\ alerts = "none"
    /\ listSource = "none"
    /\ listFilters = EmptyFilters
    /\ submit = NoSubmit
    /\ del = NoDelete
    /\ save = NoSave
    /\ statusPending = TRUE
    /\ now = 1

InitDrive ==
    /\ tokens = [s \in Sessions |-> None]
    /\ authResp = [s \in Sessions |-> 0]
    /\ oauthCreds = None
    /\ driveReqs = [r \in Origins |-> NoDriveReq]
    /\ driveFolders = [a \in Accounts |-> 0]
    /\ driveFiles = [a \in Accounts |-> EmptyBag]
    /\ revoked = {}

InitList ==
    /\ InitClient
    /\ filters \in SampleFilters
    /\ fetches = <<NewFetch(filters)>>
    /\ \E s \in SampleStores :
         /\ supabaseRows = {WithId(NumId(i), s[i]) : i \in 1..Len(s)}
         /\ supabaseSeq = Len(s)
         /\ firebaseDocs = {WithId(StrId(i), s[i]) : i \in 1..Len(s)}
    /\ sqliteRows = {}
    /\ sqliteSeq = 0
    /\ InitDrive

NextList ==
    \/ SearchClick
    \/ \E i \in 1..MaxFetches : FetchPrimaryOk(i)
    \/ \E i \in 1..MaxFetches : FetchPrimaryError(i)
    \/ \E i \in 1..MaxFetches : FetchFallbackOk(i)
    \/ \E i \in 1..MaxFetches : FetchFallbackError(i)

SpecList == InitList /\ [][NextList]_vars

----------------------------------------------------------------------------
\* Server: Google OAuth session

ServerFrame ==
    /\ UNCHANGED <<events, loading, showAddForm, filters, formData, isSavingToDrive,
                   isSubmitting, alerts, submit, del, save, now>>
    /\ UNCHANGED listing /\ UNCHANGED stores

\* GET /auth/google/callback: getToken(code) succeeds for account a; the tokens go
\* into the session; the page posts GOOGLE_AUTH_SUCCESS to the opener, whose
\* message handler sets isGoogleConnected
AuthCallbackOk(s, a) ==
    /\ tokens' = [tokens EXCEPT ![s] = a]
    /\ authResp' = [authResp EXCEPT ![s] = 200]
    /\ revoked' = revoked \ {a}
    /\ isGoogleConnected' = IF s = Browser THEN TRUE ELSE isGoogleConnected
    /\ UNCHANGED <<oauthCreds, driveReqs, driveFolders, driveFiles, statusPending>>
    /\ ServerFrame

\* faulty variant: a failed exchange ends the session's authorization
AuthCallbackErrorClearsSession(s) ==
    /\ authResp' = [authResp EXCEPT ![s] = 500]
    /\ tokens' = [tokens EXCEPT ![s] = None]
    /\ UNCHANGED <<revoked, isGoogleConnected>>
    /\ UNCHANGED <<oauthCreds, driveReqs, driveFolders, driveFiles, statusPending>>
    /\ ServerFrame

\* getToken(code) throws: 500 "Authentication failed", the session is not touched
AuthCallbackError(s) ==
    /\ authResp' = [authResp EXCEPT ![s] = 500]
    /\ UNCHANGED <<tokens, revoked, isGoogleConnected>>
    /\ UNCHANGED <<oauthCreds, driveReqs, driveFolders, driveFiles, statusPending>>
    /\ ServerFrame

\* faulty variant: the tokens are kept in one place for all sessions
StatusAnySession(s) ==
    \E x \in Sessions : tokens[x] /= None

\* GET /api/auth/google/status on session s: res.json({connected: !!session.tokens})
StatusConnected(s) ==
    tokens[s] /= None

\* checkGoogleStatus of the mount effect: GET /api/auth/google/status answers
\* {connected: !!session.tokens}, setIsGoogleConnected(data.connected)
StatusResp ==
    /\ statusPending
    /\ statusPending' = FALSE
    /\ isGoogleConnected' = StatusConnected(Browser)
    /\ UNCHANGED driveSide
    /\ ServerFrame

\* the status call fails: logged only
StatusError ==
    /\ statusPending
    /\ statusPending' = FALSE
    /\ UNCHANGED isGoogleConnected
    /\ UNCHANGED driveSide
    /\ ServerFrame

\* the account's token expires or is revoked at Google
Revoke(a) ==
    /\ \E s \in Sessions : tokens[s] = a
    /\ a \notin revoked
    /\ revoked' = revoked \cup {a}
    /\ UNCHANGED <<authResp, tokens, oauthCreds, driveReqs, driveFolders, driveFiles>>
    /\ UNCHANGED <<isGoogleConnected, statusPending>>
    /\ ServerFrame

\* the server process restarts: the in-memory session store and the oauth2Client
\* are new; events.db stays
ServerRestart ==
    /\ \A r \in Origins : driveReqs[r].pc = "idle"
    /\ \E s \in Sessions : tokens[s] /= None
    /\ tokens' = [s \in Sessions |-> None]
    /\ oauthCreds' = None
    /\ UNCHANGED authResp
    /\ UNCHANGED <<driveReqs, driveFolders, driveFiles, revoked>>
    /\ UNCHANGED <<isGoogleConnected, statusPending>>
    /\ ServerFrame

----------------------------------------------------------------------------
\* Server: POST /api/drive/save, one handler per request r

DriveFrame ==
    /\ UNCHANGED <<authResp, tokens, revoked, isGoogleConnected, statusPending>>
    /\ ServerFrame

Respond(r, status, body) ==
    driveReqs' = [driveReqs EXCEPT ![r].pc = "done", ![r].status = status, ![r].body = body]

\* faulty variant: the handler does not look for the session's tokens before calling drive
DriveSaveStartUnchecked(r) ==
    /\ driveReqs[r].pc = "received"
    /\ oauthCreds' = tokens[driveReqs[r].session]
    /\ driveReqs' = [driveReqs EXCEPT ![r].pc = "list",
                                      ![r].creds = tokens[driveReqs[r].session]]
    /\ UNCHANGED <<driveFolders, driveFiles>>
    /\ DriveFrame

\* no tokens in the session: 401.  Otherwise oauth2Client.setCredentials(tokens)
\* and drive.files.list is called
DriveSaveStart(r) ==
    /\ driveReqs[r].pc = "received"
    /\ IF tokens[driveReqs[r].session] = None
       THEN /\ Respond(r, 401, "Not connected to Google Drive")
            /\ UNCHANGED oauthCreds
       ELSE /\ oauthCreds' = tokens[driveReqs[r].session]
            /\ driveReqs' = [driveReqs EXCEPT ![r].pc = "list",
                                              ![r].creds = tokens[driveReqs[r].session]]
    /\ UNCHANGED <<driveFolders, driveFiles>>
    /\ DriveFrame

\* a drive call of the handler throws: catch, 500
DriveCallThrows(r, cause) ==
    /\ driveReqs[r].pc \in {"list", "mkdir", "create"}
    /\ driveReqs' = [driveReqs EXCEPT ![r].pc = "done", ![r].status = 500,
                                      ![r].body = "Failed to save to Drive",
                                      ![r].cause = cause]
    /\ UNCHANGED <<oauthCreds, driveFolders, driveFiles>>
    /\ DriveFrame

\* ... because the drive API fails the call
DriveApiError(r) == DriveCallThrows(r, "api_error")

\* ... because Google rejects the token the call was made with
DriveTokenRejected(r) ==
    /\ driveReqs[r].creds \in revoked
    /\ DriveCallThrows(r, "token_rejected")

\* files.list answers: with a folder found the file is created in it, else the
\* folder is created first.  The next call goes out on the shared oauth2Client with
\* whatever credentials it holds by then.
DriveListOk(r) ==
    /\ driveReqs[r].pc = "list"
    /\ driveReqs[r].creds \in Accounts \ revoked
    /\ driveReqs' = [driveReqs EXCEPT
         ![r].pc = IF driveFolders[driveReqs[r].creds] > 0 THEN "create" ELSE "mkdir",
         ![r].folder = IF driveFolders[driveReqs[r].creds] > 0 THEN driveReqs[r].creds ELSE None,
         ![r].creds = oauthCreds]
    /\ UNCHANGED <<oauthCreds, driveFolders, driveFiles>>
    /\ DriveFrame

\* files.create of the folder answers; the event file is created next
DriveMkdirOk(r) ==
    /\ driveReqs[r].pc = "mkdir"
    /\ driveReqs[r].creds \in Accounts \ revoked
    /\ driveFolders' = [driveFolders EXCEPT ![driveReqs[r].creds] = @ + 1]
    /\ driveReqs' = [driveReqs EXCEPT ![r].pc = "create", ![r].folder = driveReqs[r].creds,
                                      ![r].creds = oauthCreds]
    /\ UNCHANGED <<oauthCreds, driveFiles>>
    /\ DriveFrame

\* faulty variant: an export whose content is already in the drive creates no new file
DriveCreateOkIdempotent(r) ==
    /\ driveReqs[r].pc = "create"
    /\ driveReqs[r].creds \in Accounts \ revoked
    /\ driveReqs[r].creds = driveReqs[r].folder
    /\ driveFiles' = [driveFiles EXCEPT ![driveReqs[r].creds] =
                         IF BagIn(driveReqs[r].payload, @) THEN @
                         ELSE @ (+) SetToBag({driveReqs[r].payload})]
    /\ Respond(r, 200, "success")
    /\ UNCHANGED <<oauthCreds, driveFolders>>
    /\ DriveFrame

\* files.create of the event file answers (the parent folder must be one of the
\* calling account): 200 {success, fileId}
DriveCreateOk(r) ==
    /\ driveReqs[r].pc = "create"
    /\ driveReqs[r].creds \in Accounts \ revoked
    /\ driveReqs[r].creds = driveReqs[r].folder
    /\ driveFiles' = [driveFiles EXCEPT ![driveReqs[r].creds] = @ (+) SetToBag({driveReqs[r].payload})]
    /\ Respond(r, 200, "success")
    /\ UNCHANGED <<oauthCreds, driveFolders>>
    /\ DriveFrame

\* another client posts to /api/drive/save on its own session
OtherDriveSave ==
    /\ driveReqs["other"].pc = "idle"
    /\ SendDriveSave("other", "other", [name |-> "eventData"])
    /\ UNCHANGED <<oauthCreds, driveFolders, driveFiles>>
    /\ DriveFrame

\* and reads the answer
OtherDriveResp ==
    /\ driveReqs["other"].pc = "done"
    /\ driveReqs' = [driveReqs EXCEPT !["other"].pc = "idle"]
    /\ UNCHANGED <<oauthCreds, driveFolders, driveFiles>>
    /\ DriveFrame

----------------------------------------------------------------------------
\* saveToDrive

SaveFrame ==
    /\ UNCHANGED <<events, loading, showAddForm, filters, formData, isSubmitting, submit,
                   del, statusPending, now>>
    /\ UNCHANGED listing /\ UNCHANGED stores
    /\ UNCHANGED <<authResp, tokens, oauthCreds, driveFolders, driveFiles, revoked>>

\* the export button of a listed event (shown when connected and not loading):
\* setIsSavingToDrive(id), POST /api/drive/save {eventData: event}
SaveClick(e) ==
    /\ isGoogleConnected
    /\ ~loading
    /\ e \in Range(events)
    /\ save.pc = "idle"
    /\ save' = [pc |-> "sent"]
    /\ isSavingToDrive' = e.id
    /\ SendDriveSave("save", Browser, JsonBody(e))
    /\ UNCHANGED <<isGoogleConnected, alerts>>
    /\ SaveFrame

\* res.ok
SaveRespOk ==
    /\ save.pc = "sent"
    /\ driveReqs["save"].pc = "done"
    /\ driveReqs["save"].status = 200
    /\ alerts' = "drive_saved"
    /\ UNCHANGED isGoogleConnected
    /\ isSavingToDrive' = NullId
    /\ save' = [save EXCEPT !.pc = "idle"]
    /\ driveReqs' = [driveReqs EXCEPT !["save"].pc = "idle"]
    /\ SaveFrame

\* faulty variant: the flag is cleared after a successful export only
SaveRespErrorKeepsFlag ==
    /\ save.pc = "sent"
    /\ driveReqs["save"].pc = "done"
    /\ driveReqs["save"].status /= 200
    /\ IF driveReqs["save"].body = "Not connected to Google Drive"
       THEN /\ isGoogleConnected' = FALSE
            /\ alerts' = "drive_reconnect"
       ELSE /\ UNCHANGED isGoogleConnected
            /\ alerts' = "drive_save_failed"
    /\ UNCHANGED isSavingToDrive
    /\ save' = [save EXCEPT !.pc = "idle"]
    /\ driveReqs' = [driveReqs EXCEPT !["save"].pc = "idle"]
    /\ SaveFrame

\* !res.ok: "Not connected to Google Drive" disconnects and asks to connect again,
\* any other error body gives the generic alert
SaveRespError ==
    /\ save.pc = "sent"
    /\ driveReqs["save"].pc = "done"
    /\ driveReqs["save"].status /= 200
    /\ IF driveReqs["save"].body = "Not connected to Google Drive"
       THEN /\ isGoogleConnected' = FALSE
            /\ alerts' = "drive_reconnect"
       ELSE /\ UNCHANGED isGoogleConnected
            /\ alerts' = "drive_save_failed"
    /\ isSavingToDrive' = NullId
    /\ save' = [save EXCEPT !.pc = "idle"]
    /\ driveReqs' = [driveReqs EXCEPT !["save"].pc = "idle"]
    /\ SaveFrame

\* fetch rejects (the request did not reach the server): catch alerts the network
\* error; finally setIsSavingToDrive(null)
SaveRejected ==
    /\ save.pc = "sent"
    /\ driveReqs["save"].pc = "received"
    /\ alerts' = "drive_network_error"
    /\ UNCHANGED isGoogleConnected
    /\ isSavingToDrive' = NullId
    /\ save' = [save EXCEPT !.pc = "idle"]
    /\ driveReqs' = [driveReqs EXCEPT !["save"].pc = "idle"]
    /\ SaveFrame

----------------------------------------------------------------------------
\* Spec: the client with its three stores and the server

FormSamples ==
    {[type |-> "religious_gathering", district |-> "dhaka", upazila |-> <<"A", "b">>,
      village |-> <<"_">>, lat |-> JsNumber(23)]}

AppFilters == {EmptyFilters, [EmptyFilters EXCEPT !.district = "dhaka"]}

Init ==
    /\ InitClient
    /\ filters = EmptyFilters
    /\ fetches = <<NewFetch(EmptyFilters)>>
    /\ supabaseRows = {}
    /\ supabaseSeq = 0
    /\ firebaseDocs = {}
    /\ sqliteRows = {}
    /\ sqliteSeq = 0
    /\ InitDrive

FormActions ==
    \/ OpenForm
    \/ CloseForm
    \/ \E fd \in FormSamples : EditForm(fd)

SubmitActions ==
    \/ SubmitStart
    \/ SubmitPrimaryOk
    \/ SubmitPrimaryError
    \/ SubmitSecondaryOk
    \/ SubmitSecondaryError
    \/ SubmitCacheOk
    \/ SubmitCacheHttpError
    \/ SubmitCacheRejected
    \/ SubmitDriveResp

DeleteActions ==
    \/ \E e \in Range(events), p \in Passwords, c \in BOOLEAN : DeleteClick(e, p, c)
    \/ DeletePrimaryOk
    \/ DeletePrimaryError
    \/ DeleteSecondaryOk
    \/ DeleteSecondaryError
    \/ DeleteCacheOk
    \/ DeleteCacheHttpError
    \/ DeleteCacheRejected

DriveActions(r) ==
    \/ DriveSaveStart(r)
    \/ DriveApiError(r)
    \/ DriveListOk(r)
    \/ DriveMkdirOk(r)
    \/ DriveCreateOk(r)

FetchResponses ==
    \/ \E i \in 1..MaxFetches : FetchPrimaryOk(i)
    \/ \E i \in 1..MaxFetches : FetchPrimaryError(i)
    \/ \E i \in 1..MaxFetches : FetchFallbackOk(i)
    \/ \E i \in 1..MaxFetches : FetchFallbackError(i)

\* the write path: the add form, handleSubmit with its four backends, the listing
\* it triggers, and what makes the browser's session hold a token or lose it
Next ==
    \/ FetchResponses
    \/ FormActions
    \/ SubmitActions
    \/ AuthCallbackOk(Browser, "acctA")
    \/ DriveActions("submit")

Spec == Init /\ [][Next]_vars

\* SpecRefresh: a submission made under a filtered view, by a browser that is
\* not connected to Google, and the listings around it
RefreshFilters == {EmptyFilters, [EmptyFilters EXCEPT !.type = "public_iftar"]}

InitRefresh ==
    /\ InitClient
    /\ filters \in RefreshFilters
    /\ fetches = <<NewFetch(filters)>>
    /\ supabaseRows = {}
    /\ supabaseSeq = 0
    /\ firebaseDocs = {}
    /\ sqliteRows = {}
    /\ sqliteSeq = 0
    /\ InitDrive

NextRefresh ==
    \/ FetchResponses
    \/ OpenForm
    \/ \E fd \in FormSamples : EditForm(fd)
    \/ \E f \in RefreshFilters \ {filters} : SetFilters(f)
    \/ SubmitStart
    \/ SubmitPrimaryOk
    \/ SubmitPrimaryError
    \/ SubmitSecondaryOk
    \/ SubmitSecondaryError
    \/ SubmitCacheOk
    \/ SubmitCacheHttpError
    \/ SubmitCacheRejected

SpecRefresh == InitRefresh /\ [][NextRefresh]_vars

\* SpecGeo: submissions with the latitude typed into the form.  A number input
\* hands over "" when what was typed is not a number (or was cleared), else
\* the digits typed.
LatInputs == {<<>>, <<"2", "3">>}

NextGeo ==
    \/ FetchResponses
    \/ OpenForm
    \/ \E fd \in FormSamples : EditForm(fd)
    \/ \E text \in LatInputs : SetLat(text)
    \/ SubmitStart
    \/ SubmitPrimaryOk
    \/ SubmitPrimaryError
    \/ SubmitSecondaryOk
    \/ SubmitSecondaryError
    \/ SubmitCacheOk
    \/ SubmitCacheHttpError
    \/ SubmitCacheRejected

SpecGeo == Init /\ [][NextGeo]_vars

\* SpecResubmit: submit events that arrive at any time, also while a submission
\* is in progress
NextResubmit ==
    \/ FetchResponses
    \/ OpenForm
    \/ \E fd \in FormSamples : EditForm(fd)
    \/ SubmitEvent
    \/ SubmitPrimaryOk
    \/ SubmitPrimaryError
    \/ SubmitSecondaryOk
    \/ SubmitSecondaryError
    \/ SubmitCacheOk
    \/ SubmitCacheHttpError
    \/ SubmitCacheRejected

SpecResubmit == Init /\ [][NextResubmit]_vars

----------------------------------------------------------------------------
\* Stores that already hold the copies of two earlier submissions when the page
\* is opened

SeedEvents ==
    <<WithStamp([type |-> "public_iftar", district |-> "dhaka", upazila |-> <<"A", "b">>,
                 village |-> <<"A", "b">>, lat |-> JsNull], <<1>>),
      WithStamp([type |-> "religious_gathering", district |-> "ctg", upazila |-> <<"_">>,
                 village |-> <<"A", "b">>, lat |-> JsNumber(23)], <<2>>)>>

InitSeeded ==
    /\ InitClient
    /\ filters = EmptyFilters
    /\ fetches = <<NewFetch(EmptyFilters)>>
    /\ supabaseRows = {WithId(NumId(i), SeedEvents[i]) : i \in 1..Len(SeedEvents)}
    /\ supabaseSeq = Len(SeedEvents)
    /\ firebaseDocs = {WithId(StrId(i), SeedEvents[i]) : i \in 1..Len(SeedEvents)}
    /\ sqliteRows = {WithId(NumId(i), SeedEvents[i]) : i \in 1..Len(SeedEvents)}
    /\ sqliteSeq = Len(SeedEvents)
    /\ InitDrive

\* SpecDelete: the delete path and the listings around it
NextDelete ==
    \/ SearchClick
    \/ FetchResponses
    \/ DeleteActions

SpecDelete == InitSeeded /\ [][NextDelete]_vars

\* SpecEndpoint: the same, with the delete endpoint of the server open to every
\* client that can reach it
NextEndpoint ==
    \/ NextDelete
    \/ \E r \in sqliteRows : OtherDeletePost(r.id)

SpecEndpoint == InitSeeded /\ [][NextEndpoint]_vars

\* SpecCache: the local cache under submissions and deletions made with the
\* right password
NextCache ==
    \/ \E i \in 1..MaxFetches : FetchPrimaryOk(i)
    \/ OpenForm
    \/ \E fd \in FormSamples : EditForm(fd)
    \/ SubmitStart
    \/ SubmitPrimaryOk
    \/ SubmitSecondaryError
    \/ SubmitCacheOk
    \/ SubmitCacheHttpError
    \/ \E e \in Range(events) : DeleteClick(e, SharedSecret, TRUE)
    \/ DeletePrimaryOk
    \/ DeleteCacheOk
    \/ DeleteCacheHttpError

SpecCache == InitSeeded /\ [][NextCache]_vars

\* SpecSkew: the same, when the server was down (or answered 500) for the
\* cache insert of the first of the two earlier submissions: the cache holds
\* the second one only, under the first id of its own sequence
InitSkewed ==
    /\ InitClient
    /\ filters = EmptyFilters
    /\ fetches = <<NewFetch(EmptyFilters)>>
    /\ supabaseRows = {WithId(NumId(i), SeedEvents[i]) : i \in 1..Len(SeedEvents)}
    /\ supabaseSeq = Len(SeedEvents)
    /\ firebaseDocs = {WithId(StrId(i), SeedEvents[i]) : i \in 1..Len(SeedEvents)}
    /\ sqliteRows = {WithId(NumId(1), SeedEvents[2])}
    /\ sqliteSeq = 1
    /\ InitDrive

SpecSkew == InitSkewed /\ [][NextCache]_vars

\* SpecDrive: the authorization state of two sessions, the export endpoint and
\* saveToDrive
NextDrive ==
    \/ \E i \in 1..MaxFetches : FetchPrimaryOk(i)
    \/ \E a \in Accounts : AuthCallbackOk(Browser, a)
    \/ AuthCallbackOk("other", "acctB")
    \/ StatusResp
    \/ StatusError
    \/ Revoke("acctA")
    \/ ServerRestart
    \/ DriveActions("save")
    \/ DriveActions("other")
    \/ \E r \in {"save", "other"} : DriveTokenRejected(r)
    \/ OtherDriveSave
    \/ OtherDriveResp
    \/ \E e \in Range(events) : SaveClick(e)
    \/ SaveRespOk
    \/ SaveRespError

SpecDrive == InitSeeded /\ [][NextDrive]_vars

\* SpecAuth: the authorization callback, with exchanges that succeed and that
\* fail, and what the sessions hold afterwards
NextAuth ==
    \/ \E i \in 1..MaxFetches : FetchPrimaryOk(i)
    \/ \E s \in Sessions, a \in Accounts : AuthCallbackOk(s, a)
    \/ \E s \in Sessions : AuthCallbackError(s)
    \/ StatusResp
    \/ StatusError
    \/ Revoke("acctA")
    \/ ServerRestart

SpecAuth == InitSeeded /\ [][NextAuth]_vars

\* SpecRace: filter changes made while earlier fetchEvents calls are still
\* awaited, over stores that do not change
MaxOverlap == MaxFetches + 1     \* fetchEvents calls in flight at once here

RaceFilters ==
    {EmptyFilters, [EmptyFilters EXCEPT !.type = "public_iftar"],
     [EmptyFilters EXCEPT !.district = "ctg"]}

\* a filter input changes: setFilters, and the [filters] effect runs the
\* fetchEvents of the new render; nothing waits for the calls still in flight
SetFiltersOverlapping(f) ==
    /\ Len(fetches) < MaxOverlap
    /\ filters' = f
    /\ fetches' = Append(fetches, NewFetch(f))
    /\ loading' = TRUE
    /\ UNCHANGED <<events, showAddForm, formData, isGoogleConnected, isSavingToDrive,
                   isSubmitting, alerts, listSource, listFilters, submit, del, save,
                   statusPending, now>>
    /\ UNCHANGED stores /\ UNCHANGED driveSide

NextRace ==
    \/ \E f \in RaceFilters \ {filters} : SetFiltersOverlapping(f)
    \/ \E i \in 1..MaxOverlap : FetchPrimaryOk(i)
    \/ \E i \in 1..MaxOverlap : FetchPrimaryError(i)
    \/ \E i \in 1..MaxOverlap : FetchFallbackOk(i)
    \/ \E i \in 1..MaxOverlap : FetchFallbackError(i)

SpecRace == InitSeeded /\ [][NextRace]_vars

\* SpecLive: a browser that submits events while no Google account is linked
\* (the form is opened when no listing is under way), or links one before it
\* touches the form and then exports listed events; the primary store holds
\* two earlier events whose best-effort copies were not made.  Every call that has been issued comes back: each pending backend
\* answer and each server step is taken at some time (the user's own actions
\* are under no such obligation).
InitLive ==
    /\ InitClient
    /\ filters = EmptyFilters
    /\ fetches = <<NewFetch(EmptyFilters)>>
    /\ supabaseRows = {WithId(NumId(i), SeedEvents[i]) : i \in 1..Len(SeedEvents)}
    /\ supabaseSeq = Len(SeedEvents)
    /\ firebaseDocs = {}
    /\ sqliteRows = {}
    /\ sqliteSeq = 0
    /\ InitDrive

SaveResponses ==
    \/ SaveRespOk
    \/ SaveRespError
    \/ SaveRejected

StoreResponses ==
    \/ SubmitPrimaryOk
    \/ SubmitPrimaryError
    \/ SubmitSecondaryOk
    \/ SubmitSecondaryError
    \/ SubmitCacheOk
    \/ SubmitCacheHttpError
    \/ SubmitCacheRejected

NextLive ==
    \/ FetchResponses
    \/ (~isGoogleConnected /\ fetches = <<>>) /\ OpenForm
    \/ \E fd \in FormSamples : EditForm(fd)
    \/ SubmitStart
    \/ StoreResponses
    \/ (submit.n = 0 /\ ~showAddForm) /\ AuthCallbackOk(Browser, "acctA")
    \/ DriveActions("save")
    \/ \E e \in Range(events) : SaveClick(e)
    \/ SaveResponses

SpecLive ==
    /\ InitLive /\ [][NextLive]_vars
    /\ WF_vars(FetchResponses)
    /\ WF_vars(StoreResponses)
    /\ WF_vars(DriveActions("save"))
    /\ WF_vars(SaveResponses)

----------------------------------------------------------------------------
\* Claims about the listing (fetchEvents)

Listed == listSource \in {"primary", "fallback"}

ListedStore == IF listSource = "primary" THEN supabaseRows ELSE firebaseDocs

ContentsOf(r) == [i \in 1..Len(r) |-> Content(r[i])]

\* the filter predicate as the specification words it: equality on district and
\* type, case-insensitive containment on upazila and village, empty filter = none
PassesFilters(e, f) ==
    /\ (f.district /= "" => e.district = f.district)
    /\ (f.type /= "" => e.type = f.type)
    /\ (f.upazila /= <<>> =>
          e.upazila /= Null /\ includes(toLowerCase(e.upazila), toLowerCase(f.upazila)))
    /\ (f.village /= <<>> =>
          e.village /= Null /\ includes(toLowerCase(e.village), toLowerCase(f.village)))

\* C4: a listing served by the fallback shows what the primary path would have
\* shown for the same filters over the same events: same members, same order.
C4_FallbackEqualsPrimary ==
    listSource = "fallback" =>
        ContentsOf(events) \in {ContentsOf(r) : r \in PrimaryResults(listFilters, supabaseRows)}

\* C5: the displayed list holds exactly the events of the store that pass every
\* non-empty filter.
C5_ListIsExactlyFiltered ==
    Listed => Range(events) = {e \in ListedStore : PassesFilters(e, listFilters)}

----------------------------------------------------------------------------
\* Claims about handleSubmit

SubmitEnds == submit.pc /= "idle" /\ submit'.pc = "idle"

\* C1: a submission whose primary insert succeeded ends in the success outcome
\* (success alert, form closed and reset, list refresh started, flag released),
\* whatever the secondary store, the local cache and the drive export did.
C1_PrimaryOkEndsInSuccess ==
    [][(SubmitEnds /\ submit.log /= <<>> /\ submit.log[1] = Step("primary", "ok")) =>
          /\ submit'.result = "success"
          /\ alerts' = "submit_ok"
          /\ showAddForm' = FALSE
          /\ formData' = EmptyForm
          /\ fetches' = Append(fetches, NewFetch(submit.filters))
          /\ isSubmitting' = FALSE]_vars

\* a submission has succeeded although the backup write failed, the local cache
\* was unreachable and the drive export answered an error
C1_Witness ==
    /\ submit.pc = "idle"
    /\ submit.result = "success"
    /\ submit.log = <<Step("primary", "ok"), Step("secondary", "failed"),
                      Step("cache", "rejected"), Step("drive", "http_error")>>

\* C2: a submission whose primary insert failed ends right there in the failure
\* outcome: the error is alerted, no other backend is written or called, and
\* the form data, the open form and the displayed list are as before.
C2_PrimaryFailureIsFatal ==
    [][(submit' /= submit /\ submit'.log /= <<>> /\ submit'.log[1] = Step("primary", "failed")) =>
          /\ submit'.pc = "idle"
          /\ submit'.result = "failure"
          /\ Len(submit'.log) = 1
          /\ alerts' = "submit_failed"
          /\ isSubmitting' = FALSE
          /\ UNCHANGED <<formData, showAddForm, events, loading>>
          /\ UNCHANGED listing
          /\ UNCHANGED stores
          /\ UNCHANGED driveSide]_vars

\* a submission has failed at the primary store; the form is still open and filled
C2_Witness ==
    /\ submit.pc = "idle"
    /\ submit.result = "failure"
    /\ submit.log = <<Step("primary", "failed")>>
    /\ showAddForm
    /\ formData \in FormSamples
    /\ ~isSubmitting

----------------------------------------------------------------------------
\* Claims about deleteEvent

\* C3: a delete with a password other than the shared secret issues no backend
\* call (no primary, secondary or local-cache delete, no refetch) and leaves the
\* events of every store as they were.
C3_WrongSecretNoBackendCall ==
    [][(del' /= del /\ del.pc = "idle" /\ del'.password /= SharedSecret) =>
          /\ del'.pc = "idle"
          /\ del'.log = <<>>
          /\ UNCHANGED stores
          /\ UNCHANGED listing
          /\ UNCHANGED events]_vars

\* a delete was asked for a listed event with a wrong password
C3_Witness ==
    /\ del.password = "12345"
    /\ alerts = "wrong_password"
    /\ \E e \in supabaseRows \cup firebaseDocs : e.id = del.id

\* C7: a failure of the primary delete ends deleteEvent with the error alert; no
\* secondary or local-cache delete is issued and the list is not refetched.
C7_PrimaryDeleteFailureAborts ==
    [][(del' /= del /\ del'.log /= <<>> /\ del'.log[1] = Step("primary", "failed")) =>
          /\ del'.pc = "idle"
          /\ Len(del'.log) = 1
          /\ alerts' = "delete_failed"
          /\ UNCHANGED stores
          /\ UNCHANGED listing
          /\ UNCHANGED events]_vars

\* a confirmed delete has failed at the primary store
C7_Witness ==
    /\ del.pc = "idle"
    /\ del.password = SharedSecret
    /\ del.log = <<Step("primary", "failed")>>
    /\ alerts = "delete_failed"

\* C8: however the local-cache delete call fails (error status or rejected
\* call), deleteEvent surfaces no error and refetches the list.
C8_CacheDeleteFailureSwallowed ==
    [][(del.pc = "cache" /\ del'.pc = "idle"
        /\ del'.log[Len(del'.log)] \in {Step("cache", "http_error"), Step("cache", "rejected")}) =>
          /\ UNCHANGED alerts
          /\ fetches' = Append(fetches, NewFetch(del.filters))]_vars

----------------------------------------------------------------------------
\* Claims about the drive export

\* C9: POST /api/drive/save on a session without tokens answers 401
\* {error: "Not connected to Google Drive"} and makes no drive call.
C9_NoTokenAnswers401 ==
    [][\A r \in Origins :
         (driveReqs[r].pc = "received" /\ driveReqs'[r] /= driveReqs[r]
          /\ tokens[driveReqs[r].session] = None) =>
            /\ driveReqs'[r].pc = "done"
            /\ driveReqs'[r].status = 401
            /\ driveReqs'[r].body = "Not connected to Google Drive"
            /\ UNCHANGED <<oauthCreds, driveFolders, driveFiles>>]_vars

\* the export of the connected browser was answered 401 after its session lost
\* the tokens, with nothing created in any drive
C9_Witness ==
    /\ driveReqs["save"].pc = "done"
    /\ driveReqs["save"].status = 401
    /\ isGoogleConnected
    /\ \A a \in Accounts : driveFolders[a] = 0 /\ driveFiles[a] = EmptyBag

\* C10: an export that fails because the drive API rejects the held token puts
\* the authorization state back to Unauthenticated (session tokens gone, client
\* flag false) and asks the user to connect again.
C10_RejectedTokenDisconnects ==
    [][(save.pc = "sent" /\ save'.pc = "idle" /\ driveReqs["save"].cause = "token_rejected") =>
          /\ tokens'[Browser] = None
          /\ isGoogleConnected' = FALSE
          /\ alerts' = "drive_reconnect"]_vars

----------------------------------------------------------------------------
\* Claims about the copies of a submission

\* the primary and backup copies agree, and so do the primary and local-cache copies
StoreCopiesAgree ==
    /\ \A d \in firebaseDocs : \E r \in supabaseRows : Content(d) = Content(r)
    /\ \A c \in sqliteRows : \E r \in supabaseRows : Content(c) = Content(r)

\* C11: every copy written for a submission (backup document, local-cache row,
\* drive file) carries the creation timestamp and the field values of the
\* primary record of that submission.
C11_CopiesShareStampAndFields ==
    /\ StoreCopiesAgree
    /\ \A a \in Accounts : \A p \in BagToSet(driveFiles[a]) :
         /\ "created_at" \in DOMAIN p
         /\ \E r \in supabaseRows : Content(p) = Content(r)

\* the submission s has issued the drive export call (answered, rejected or pending)
DriveAttempted(s) ==
    s.pc = "drive" \/ (s.log /= <<>> /\ s.log[Len(s.log)].b = "drive")

\* C12: when a submission gets past the local-cache step, the drive export is
\* issued exactly if the browser's session holds a token at that moment.
C12_ExportIffSessionToken ==
    [][(submit.pc = "cache" /\ submit'.pc /= "cache") =>
          (DriveAttempted(submit') <=> tokens[Browser] /= None)]_vars

----------------------------------------------------------------------------
\* Claims about concurrency in the presentation layer

\* a user action issues its backend call: a confirmed delete issues the primary
\* delete, or the search button issues the listing query
UserCallStarts ==
    \/ del.pc = "idle" /\ del'.pc = "primary"
    \/ del' = del /\ submit' = submit /\ Len(fetches') > Len(fetches)

\* a backend call issued for an earlier action has not completed
CallInFlight == fetches /= <<>> \/ del.pc /= "idle" \/ submit.pc /= "idle" \/ save.pc /= "idle"

\* C13: a user action starts a backend call only when no backend call is in flight.
C13_OneCallInFlight ==
    [][UserCallStarts => ~CallInFlight]_vars

----------------------------------------------------------------------------
\* Claims about the listing after a submission

\* a listing served by the primary store is shown after the last submission succeeded
ListedAfterSuccess ==
    /\ submit.pc = "idle" /\ submit.result = "success"
    /\ Len(fetches') < Len(fetches)
    /\ listSource' = "primary"

ShowsSubmitted == \E e \in Range(events') : Content(e) = InsertedRow(submit.newEvent)

----------------------------------------------------------------------------
\* Claims about the backup copy in deleteEvent

LastStep(log) == log[Len(log)]

\* C15: the backup delete is issued only for a string identifier and only right
\* after the primary delete succeeded; whether it succeeds or fails, the
\* local-cache delete is issued next without any alert, and when that call
\* resolves after a failed backup delete the cache row is deleted (status 200)
\* and the list is refetched.
C15_SecondaryDeleteBestEffort ==
    [][/\ (del.pc /= "secondary" /\ del'.pc = "secondary") =>
             /\ del.id.t = "string"
             /\ del.pc = "primary"
             /\ del'.log = <<Step("primary", "ok")>>
       /\ (del.id.t = "number" /\ del' /= del) =>
             /\ del'.pc /= "secondary"
             /\ UNCHANGED firebaseDocs
       /\ (del.pc = "secondary" /\ del' /= del) =>
             /\ del'.pc = "cache"
             /\ UNCHANGED alerts
             /\ UNCHANGED <<supabaseRows, sqliteRows>>
       /\ (del.pc = "cache" /\ del' /= del /\ Step("secondary", "failed") \in Range(del.log)
           /\ LastStep(del'.log).r \in {"ok", "http_error"}) =>
             /\ fetches' = Append(fetches, NewFetch(del.filters))
             /\ LastStep(del'.log).r = "ok" => sqliteRows' = {r \in sqliteRows : r.id /= del.id}]_vars

\* a delete by string identifier went through although the backup delete failed
C15_Witness ==
    /\ del.pc = "idle"
    /\ del.id.t = "string"
    /\ del.log = <<Step("primary", "ok"), Step("secondary", "failed"), Step("cache", "ok")>>
    /\ fetches /= <<>>

\* C16 (as stated): no step removes a document from the backup store.
C16_SecondaryNeverShrinks ==
    [][firebaseDocs \subseteq firebaseDocs']_vars

\* C16 (amended): a document leaves the backup store only through deleteEvent
\* called with a string identifier, after the primary delete succeeded, and
\* then it is exactly the document with that identifier.
C16_SecondaryShrinksOnlyByStringIdDelete ==
    [][firebaseDocs' /= firebaseDocs =>
          /\ del.pc = "secondary"
          /\ del.id.t = "string"
          /\ del.log = <<Step("primary", "ok")>>
          /\ firebaseDocs' = {d \in firebaseDocs : d.id /= del.id}
          /\ Cardinality(firebaseDocs') = Cardinality(firebaseDocs) - 1]_vars

\* an event listed from the backup store was deleted and its document is gone
C16_Witness ==
    /\ Step("secondary", "ok") \in Range(del.log)
    /\ \A d \in firebaseDocs : d.id /= del.id
    /\ Cardinality(firebaseDocs) = Len(SeedEvents) - 1

----------------------------------------------------------------------------
\* Claims about the files the drive export creates

\* the handler of request r sends its answer with this status
Answers(r, status) ==
    /\ driveReqs[r].pc \in {"received", "list", "mkdir", "create"}
    /\ driveReqs'[r].pc = "done"
    /\ driveReqs'[r].status = status

\* C17: an export answered 200 has created exactly one new file holding the
\* payload, in a fixed-name folder that the lookup found or that the handler
\* created because the lookup found none; nothing else creates or removes files;
\* an export that fails in a drive call answers 500 and creates no file.
C17_EachExportCreatesOneFile ==
    [][/\ \A r \in Origins : Answers(r, 200) =>
             \E a \in Accounts :
                /\ driveFiles' = [driveFiles EXCEPT ![a] = @ (+) SetToBag({driveReqs[r].payload})]
                /\ driveReqs[r].folder = a
                /\ driveFolders[a] > 0
       /\ driveFiles' /= driveFiles => \E r \in Origins : Answers(r, 200)
       /\ \A r \in Origins :
             (driveReqs[r].pc = "list" /\ driveReqs'[r].pc \in {"mkdir", "create"}) =>
                 /\ UNCHANGED <<driveFolders, driveFiles>>
                 /\ driveReqs'[r].pc = "create" <=> driveFolders[driveReqs[r].creds] > 0
                 /\ driveReqs'[r].pc = "create" => driveReqs'[r].folder = driveReqs[r].creds
       /\ driveFolders' /= driveFolders =>
             \E r \in Origins :
                /\ driveReqs[r].pc = "mkdir" /\ driveReqs'[r].pc = "create"
                /\ driveFolders' = [driveFolders EXCEPT ![driveReqs'[r].folder] = @ + 1]
       /\ \A r \in Origins :
             (driveReqs[r].pc \in {"list", "mkdir", "create"} /\ driveReqs'[r].pc = "done"
              /\ driveReqs'[r].status /= 200) =>
                 /\ driveReqs'[r].status = 500
                 /\ UNCHANGED driveFiles]_vars

\* the same event has been exported twice and the drive holds two files of it
C17_Witness ==
    \E a \in Accounts : \E e \in supabaseRows :
        /\ CopiesIn(e, driveFiles[a]) = 2
        /\ driveFolders[a] > 0
        /\ driveReqs["save"].n = 2

----------------------------------------------------------------------------
\* Claims about the authorization status

\* C18: a session comes to hold tokens only through a successful authorization
\* callback of that same session, which touches no other session's tokens; the
\* status endpoint reports for each session whether it holds tokens, and after
\* the browser's status call its flag is that report for its own session
\* (or untouched, when the call failed).
C18_StatusIsPerSession ==
    [][/\ \A s \in Sessions :
             (tokens'[s] /= tokens[s] /\ tokens'[s] /= None) =>
                 /\ \E a \in Accounts : AuthCallbackOk(s, a)
                 /\ \A x \in Sessions \ {s} : tokens'[x] = tokens[x]
       /\ \A s \in Sessions : StatusConnected(s) <=> tokens[s] \in Accounts
       /\ (statusPending /\ ~statusPending') =>
             isGoogleConnected' \in {isGoogleConnected, tokens[Browser] \in Accounts}]_vars

\* the other session is authorized, the browser's is not, and the browser's
\* status call has left it disconnected
C18_Witness ==
    /\ ~statusPending
    /\ tokens["other"] \in Accounts
    /\ tokens[Browser] = None
    /\ ~isGoogleConnected

----------------------------------------------------------------------------
\* Claims about the coordinates

\* the primary and the local-cache copy hold a number or null as latitude
JsonCopiesHoldNoNaN ==
    \A e \in supabaseRows \cup sqliteRows : e.lat.k \in {"number", "null"}

\* C19: no copy of a submission stores an invalid number as its latitude: a
\* latitude that was not a valid number is stored as absent (null or missing).
C19_MalformedCoordinateStoredAbsent ==
    \A e \in supabaseRows \cup firebaseDocs \cup sqliteRows : e.lat /= NaN

----------------------------------------------------------------------------
\* Claims about the local cache endpoints

\* C20: an insert into the local cache adds exactly one row and leaves the others
\* as they were; the row's id is the next value of a sequence that never goes
\* down, so it differs from every id handed out before, also those of rows
\* deleted since; every answer GET /api/events can give afterwards holds the new
\* row and all rows newest first.
C20_CacheInsertAddsOneFreshRow ==
    [][/\ ~(sqliteRows' \subseteq sqliteRows) =>
             \E row \in sqliteRows' \ sqliteRows :
                /\ sqliteRows' = sqliteRows \cup {row}
                /\ sqliteSeq' = sqliteSeq + 1
                /\ row.id = NumId(sqliteSeq')
                /\ row.created_at = submit.newEvent.created_at
                /\ GetEvents(sqliteRows') /= {}
                /\ \A r \in GetEvents(sqliteRows') :
                      /\ Range(r) = sqliteRows'
                      /\ \A i, j \in 1..Len(r) : i < j =>
                            getTime(r[i].created_at) >= getTime(r[j].created_at)
       /\ sqliteSeq' >= sqliteSeq
       /\ \A e \in sqliteRows : e.id.v <= sqliteSeq]_vars

\* the newest cache row was deleted and a later submission got a row with a new id
C20_Witness ==
    /\ sqliteSeq = Len(SeedEvents) + 1
    /\ \E row \in sqliteRows : row.id = NumId(sqliteSeq)
    /\ \A row \in sqliteRows : row.id /= NumId(Len(SeedEvents))

----------------------------------------------------------------------------
\* Claims about the order of the writes of one submission

\* the place of a backend in handleSubmit
BackendRank(b) ==
    CASE b = "primary" -> 1 [] b = "secondary" -> 2 [] b = "cache" -> 3 [] b = "drive" -> 4

\* the steps a submission may take from one await to the next
SubmitEdges ==
    {<<"idle", "primary">>, <<"primary", "secondary">>, <<"primary", "idle">>,
     <<"secondary", "cache">>, <<"cache", "drive">>, <<"cache", "idle">>,
     <<"drive", "idle">>}

\* C21: within one submission the backends are written in the order primary,
\* secondary, local cache, drive export; a step is issued only when the one before
\* it has come back (with or without an error), and no backend is called twice:
\* each store changes only on the step of its own write, by at most one record.
C21_WritesInFixedOrderOnce ==
    [][/\ \A i, j \in 1..Len(submit'.log) : i < j =>
             BackendRank(submit'.log[i].b) < BackendRank(submit'.log[j].b)
       /\ submit'.pc /= submit.pc => <<submit.pc, submit'.pc>> \in SubmitEdges
       /\ submit'.log /= submit.log =>
             \/ submit'.pc /= submit.pc
             \/ submit.pc = "idle"
       /\ submit'.n /= submit.n =>
             submit.pc = "idle" /\ submit'.pc = "primary" /\ submit'.log = <<>>
       /\ supabaseRows' /= supabaseRows =>
             /\ submit.pc = "primary" /\ submit'.pc = "secondary"
             /\ Cardinality(supabaseRows') = Cardinality(supabaseRows) + 1
       /\ firebaseDocs' /= firebaseDocs =>
             /\ submit.pc = "secondary" /\ submit'.pc = "cache"
             /\ Cardinality(firebaseDocs') = Cardinality(firebaseDocs) + 1
       /\ sqliteRows' /= sqliteRows =>
             /\ submit.pc = "cache" /\ submit'.pc \in {"drive", "idle"}
             /\ Cardinality(sqliteRows') = Cardinality(sqliteRows) + 1
       /\ driveReqs'["submit"].n /= driveReqs["submit"].n =>
             /\ submit.pc = "cache" /\ submit'.pc = "drive"
             /\ driveReqs'["submit"].n = driveReqs["submit"].n + 1]_vars

\* a submission has gone through all four steps, the second of which failed
C21_Witness ==
    /\ submit.result = "success"
    /\ Len(submit.log) = 4
    /\ submit.log[2] = Step("secondary", "failed")
    /\ submit.log[4].b = "drive"
    /\ Cardinality(supabaseRows) = 1 /\ Cardinality(sqliteRows) = 1

----------------------------------------------------------------------------
\* Claims about the authorization callback

\* C22: the callback puts tokens into a session only together with its success
\* answer; a callback whose code exchange fails answers 500 and leaves every
\* session's tokens as they were (none stay none, granted ones are kept), and
\* whatever it answers is a success or the 500.
C22_FailedExchangeKeepsSession ==
    [][\A s \in Sessions :
          /\ (tokens'[s] /= tokens[s] /\ tokens'[s] /= None) => authResp'[s] = 200
          /\ authResp'[s] /= authResp[s] =>
                /\ authResp'[s] \in {200, 500}
                /\ authResp'[s] = 200 => tokens'[s] \in Accounts
                /\ authResp'[s] = 500 =>
                      /\ tokens' = tokens
                      /\ isGoogleConnected' = isGoogleConnected]_vars

\* the browser's session kept its tokens through a failed exchange, and the other
\* session, which never held any, still holds none after its failed exchange
C22_Witness ==
    /\ authResp[Browser] = 500 /\ tokens[Browser] \in Accounts
    /\ authResp["other"] = 500 /\ tokens["other"] = None

----------------------------------------------------------------------------
\* Claims about exports that run at the same time

\* C23: every drive call of an export request is made with the credentials of the
\* request's own session: the lookup with the session's tokens, and the folder
\* creation and the file creation with the same credentials as the lookup, so
\* that the file goes to the account the request's session is authorized for.
C23_ExportUsesOwnCredentials ==
    [][\A r \in Origins :
          /\ (driveReqs[r].pc = "received" /\ driveReqs'[r].pc = "list") =>
                driveReqs'[r].creds = tokens[driveReqs[r].session]
          /\ (driveReqs[r].pc \in {"list", "mkdir"} /\ driveReqs'[r].pc \in {"mkdir", "create"}) =>
                driveReqs'[r].creds = driveReqs[r].creds]_vars

----------------------------------------------------------------------------
\* Claims about fetchEvents calls that overlap

\* C24: when no fetchEvents call is in flight any more, a list on display is the
\* answer to the call started last, that is the listing for the filters now set.
C24_LastStartedFetchWins ==
    (fetches = <<>> /\ Listed) =>
        /\ listFilters = filters
        /\ events \in (IF listSource = "primary"
                       THEN PrimaryResults(filters, supabaseRows)
                       ELSE {FallbackResult(filters, firebaseDocs)})

----------------------------------------------------------------------------
\* Claims about what a deletion removes

\* C25: a deletion removes only copies of the submission being deleted: a row
\* that leaves the local cache or the secondary store holds the event the user
\* picked in the list.
C25_DeleteRemovesOnlyOwnCopies ==
    [][\A r \in (sqliteRows \ sqliteRows') \cup (firebaseDocs \ firebaseDocs') :
          Content(r) = del.event]_vars

----------------------------------------------------------------------------
\* Claims about submit events during a submission

\* C26: a submission is in progress exactly while isSubmitting is set; a submit
\* event that arrives meanwhile changes nothing (no store, no request, not the
\* submission under way); a submission starts only when none is in progress;
\* each one inserts at most one primary record, and a successful one leaves the
\* form closed and empty, so that a filled-in form gives one record at most.
C26_OneSubmissionAtATime ==
    [][/\ isSubmitting <=> submit.pc /= "idle"
       /\ (isSubmitting /\ submit'.n /= submit.n) =>
             /\ submit' = [submit EXCEPT !.n = submit'.n]
             /\ isSubmitting'
             /\ UNCHANGED stores /\ UNCHANGED driveSide
             /\ UNCHANGED <<events, formData, showAddForm, alerts, fetches>>
       /\ (submit'.pc = "primary" /\ submit.pc /= "primary") =>
             ~isSubmitting /\ isSubmitting'
       /\ supabaseRows' /= supabaseRows =>
             /\ submit.pc = "primary" /\ submit'.pc = "secondary"
             /\ Cardinality(supabaseRows') = Cardinality(supabaseRows) + 1
       /\ (submit.pc /= "idle" /\ submit'.pc = "idle" /\ submit'.result = "success") =>
             /\ ~showAddForm'
             /\ ~FormValid(formData')]_vars

\* a submit event arrived during a submission, which went on to succeed and left
\* one primary record
C26_Witness ==
    /\ submit.n = MaxSubmits + 1
    /\ submit.pc = "idle" /\ submit.result = "success"
    /\ Cardinality(supabaseRows) = 1
    /\ ~isSubmitting

----------------------------------------------------------------------------
\* Claims about the delete endpoint of the local cache

\* C27: a row leaves the local cache only in a deletion for which the right
\* shared secret was given: the DELETE runs for a deleteEvent call that passed
\* the password comparison.
C27_CacheDeleteNeedsSecret ==
    [][~(sqliteRows \subseteq sqliteRows') =>
          /\ del.pc = "cache"
          /\ del.password = SharedSecret]_vars

----------------------------------------------------------------------------
\* Claims about the export folder

\* C28: whatever exports have run, one after the other or at the same time, no
\* account holds more than one folder of the fixed name.
C28_OneFolderPerAccount ==
    \A a \in Accounts : driveFolders[a] <= 1

----------------------------------------------------------------------------
\* Claims about a listing that fails on both paths

\* C29: when the fallback of a fetchEvents call fails after its primary query
\* has failed, the call ends with the displayed list, the filters and the last
\* alert as they were, and with the loading flag cleared.
C29_FailedFetchKeepsList ==
    [][\A i \in 1..Len(fetches) :
          (/\ fetches[i].stage = "fallback"
           /\ fetches' = RemoveAt(fetches, i)
           /\ listSource' = "failed") =>
              /\ events' = events
              /\ alerts' = alerts
              /\ filters' = filters
              /\ loading' = FALSE]_vars

\* a listing has failed on both paths and the list on display is an earlier one
\* that is not a listing for the filters now set
C29_Witness ==
    /\ listSource = "failed"
    /\ fetches = <<>> /\ ~loading
    /\ events /= <<>>
    /\ events \notin PrimaryResults(filters, supabaseRows)
    /\ alerts = "none"

----------------------------------------------------------------------------
\* Claims about the progress flags

====
